---- MODULE Spec2Model ----
(***************************************************************************)
(* Model of piton/tools/bin/riscvlib.py: the device tree generator         *)
(* (gen_riscv_dts), the register field formatter (_reg_fmt), the bootrom   *)
(* banner generator (get_bootrom_info) and the driver (main).              *)
(*                                                                         *)
(* Python integers are unbounded and the device fields are 64 bits wide,   *)
(* so an integer that may exceed the model checker's native range is kept  *)
(* as its sequence of base-16 digits, most significant first (a device     *)
(* base or length has 16 digits).  Text is kept as a sequence of           *)
(* one-character strings, so that it can be split and compared.            *)
(***************************************************************************)
EXTENDS Integers, Sequences, FiniteSets, TLC

VARIABLES devices, nCpus, pc, err, i, k, tmpStr, uartBase, numIrqs,
          ioDeviceNr, memLen, info, files, rpc, rargs, rret

vars == <<devices, nCpus, pc, err, i, k, tmpStr, uartBase, numIrqs,
          ioDeviceNr, memLen, info, files, rpc, rargs, rret>>

mainVars == <<devices, nCpus, pc, err, i, k, tmpStr, uartBase, numIrqs,
              ioDeviceNr, memLen, info, files>>

regVars == <<rpc, rargs, rret>>

(***************************************************************************)
(* Bounds of the model.                                                    *)
(***************************************************************************)
MaxDevs == 3
MaxCpus == 2
MaxCellArg == 3

(***************************************************************************)
(* Integers as digit sequences.                                            *)
(***************************************************************************)
RECURSIVE StripZeros(_)
StripZeros(s) ==
    IF s = <<>> THEN <<>>
    ELSE IF Head(s) = 0 THEN StripZeros(Tail(s)) ELSE s

Zeros(n) == [j \in 1..n |-> 0]

\* 64-bit values used as inputs
U64_Zero     == Zeros(16)
U64_2G       == <<0,0,0,0,0,0,0,0, 8,0,0,0,0,0,0,0>>
U64_256M     == <<0,0,0,0,0,0,0,0, 1,0,0,0,0,0,0,0>>
U64_1G       == <<0,0,0,0,0,0,0,0, 4,0,0,0,0,0,0,0>>
U64_Max      == [j \in 1..16 |-> 15]
U64_Mixed    == <<0,0,0,0,0,0,15,15, 15,0,12,2,12,0,0,0>>
U64_HighOnly == <<10,11,12,13,0,0,0,1, 0,0,0,0,0,0,0,0>>
U64_Beef     == <<0,0,0,0,0,0,0,0, 13,14,10,13,11,14,14,15>>

\* v >> 32: drops the eight low base-16 digits
Shr32(v) == IF Len(v) <= 8 THEN <<>> ELSE SubSeq(v, 1, Len(v) - 8)

And32_Mask16(v) == IF Len(v) <= 4 THEN v ELSE SubSeq(v, Len(v) - 3, Len(v))

\* v & 0xFFFFFFFF: keeps the eight low base-16 digits
And32(v) == IF Len(v) <= 8 THEN v ELSE SubSeq(v, Len(v) - 7, Len(v))

HexChars == <<"0", "1", "2", "3", "4", "5", "6", "7",
              "8", "9", "a", "b", "c", "d", "e", "f">>

\* "%x" % v: the shortest base-16 numeral of v, lower case
FmtX(v) ==
    LET d == StripZeros(v)
        m == IF d = <<>> THEN <<0>> ELSE d
    IN  [j \in 1..Len(m) |-> HexChars[m[j] + 1]]

\* "%08x" % v: at least eight digits, padded on the left with zeros
Fmt08x(v) ==
    LET t == FmtX(v)
    IN  IF Len(t) >= 8 THEN t ELSE [j \in 1..(8 - Len(t)) |-> "0"] \o t

\* "0x%08x " % v
Cell_NoSeparator(v) == <<"0", "x">> \o Fmt08x(v)

Cell(v) == <<"0", "x">> \o Fmt08x(v) \o <<" ">>

(***************************************************************************)
(* _reg_fmt.  The two assert statements are modelled as written; raised    *)
(* tells whether one of them failed, value is the returned text.           *)
(***************************************************************************)
RegFmtAsserts(addrCells, sizeCells) ==
    /\ addrCells >= 1 \/ addrCells <= 2
    /\ sizeCells >= 0 \/ sizeCells <= 2

reg_fmt(addrBase, addrLen, addrCells, sizeCells) ==
    IF ~RegFmtAsserts(addrCells, sizeCells)
    THEN [raised |-> TRUE, value |-> <<>>]
    ELSE [raised |-> FALSE,
          value  |-> <<" ">>
                \o (IF addrCells >= 2 THEN Cell(Shr32(addrBase)) ELSE <<>>)
                \o (IF addrCells >= 1 THEN Cell(And32(addrBase)) ELSE <<>>)
                \o (IF sizeCells >= 2 THEN Cell(Shr32(addrLen)) ELSE <<>>)
                \o (IF sizeCells >= 1 THEN Cell(And32(addrLen)) ELSE <<>>)]

(***************************************************************************)
(* int(memLen/1024/1024).  In Python 3, / on two integers is true          *)
(* division: the exact quotient rounded to the nearest double (ties to     *)
(* even); dividing that double by 1024 is exact; int() truncates.  A       *)
(* double is kept as [mant, exp], the value of the bit sequence mant times *)
(* 2^exp; an integer result is a bit sequence without leading zeros.       *)
(***************************************************************************)
DBL_MANT_DIG == 53

NibbleBits(d) == <<d \div 8, (d \div 4) % 2, (d \div 2) % 2, d % 2>>

Bits(v) == [j \in 1..(4 * Len(v)) |-> NibbleBits(v[((j - 1) \div 4) + 1])[((j - 1) % 4) + 1]]

RECURSIVE IncBits(_)
IncBits(b) ==
    IF b = <<>> THEN <<1>>
    ELSE IF b[Len(b)] = 0 THEN SubSeq(b, 1, Len(b) - 1) \o <<1>>
    ELSE IncBits(SubSeq(b, 1, Len(b) - 1)) \o <<0>>

\* the integer with bits n, divided by 2^s, as the nearest double
TrueDivPow2(n, s) ==
    LET b == StripZeros(n)
        p == DBL_MANT_DIG
    IN  IF Len(b) <= p THEN [mant |-> b, exp |-> 0 - s]
        ELSE LET kept   == SubSeq(b, 1, p)
                 guard  == b[p + 1]
                 sticky == \E j \in (p + 2)..Len(b) : b[j] = 1
                 up     == guard = 1 /\ (sticky \/ kept[p] = 1)
             IN  [mant |-> IF up THEN IncBits(kept) ELSE kept,
                  exp  |-> Len(b) - p - s]

\* a double divided by 2^s
FloatDivPow2(f, s) == [f EXCEPT !.exp = @ - s]

\* int(f) for f >= 0
IntOfFloat(f) ==
    IF f.exp >= 0 THEN StripZeros(f.mant \o Zeros(f.exp))
    ELSE IF 0 - f.exp >= Len(f.mant) THEN <<>>
    ELSE StripZeros(SubSeq(f.mant, 1, Len(f.mant) + f.exp))

\* int(memLen/1024/1024)
DramMB(len) == IntOfFloat(FloatDivPow2(TrueDivPow2(Bits(len), 10), 10))

(***************************************************************************)
(* The device inventory (pyhplib.ReadDevicesXMLFile): descriptors with a   *)
(* name, a base and a length.                                              *)
(***************************************************************************)
Dev(name, base, length) == [name |-> name, base |-> base, length |-> length]

U64_UartA  == <<0,0,0,0,0,0,15,15, 15,0,12,2,12,0,0,0>>
U64_UartB  == <<0,0,0,0,0,0,15,15, 15,0,12,3,0,0,0,0>>
U64_Net    == <<0,0,0,0,0,0,15,15, 15,0,13,0,0,0,0,0>>
U64_Sd     == <<0,0,0,0,0,0,15,15, 15,0,11,0,0,0,0,0>>
U64_Clint  == <<0,0,0,0,0,0,15,15, 15,1,0,2,0,0,0,0>>
U64_Plic   == <<0,0,0,0,0,0,15,15, 15,1,1,0,0,0,0,0>>
U64_Iob    == <<0,0,0,0,0,0,9,15, 0,0,0,0,0,0,0,0>>
U64_Small  == <<0,0,0,0,0,0,0,0, 0,0,0,13,4,0,0,0>>

DeviceUniverse ==
    { Dev("mem", U64_2G, U64_1G),
      Dev("mem", U64_Zero, U64_Max),
      Dev("uart", U64_UartA, U64_Small),
      Dev("uart", U64_UartB, U64_Small),
      Dev("net", U64_Net, U64_Small),
      Dev("sd", U64_Sd, U64_Small),
      Dev("ariane_clint", U64_Clint, U64_Small),
      Dev("ariane_plic", U64_Plic, U64_Small),
      Dev("iob", U64_Iob, U64_Small) }

Inventories == UNION { [1..n -> DeviceUniverse] : n \in 0..MaxDevs }

(***************************************************************************)
(* gen_riscv_dts: the scans of the inventory and the nodes it appends to   *)
(* tmpStr.  The document is kept as the sequence of its nodes, each with   *)
(* the values the format string substitutes.                               *)
(***************************************************************************)
RECURSIVE LastUartBase(_, _)
LastUartBase(devs, acc) ==
    IF devs = <<>> THEN acc
    ELSE LastUartBase(Tail(devs),
                      IF Head(devs).name = "uart" THEN Head(devs).base ELSE acc)

RECURSIVE LastMemLen(_, _)
LastMemLen(devs, acc) ==
    IF devs = <<>> THEN acc
    ELSE LastMemLen(Tail(devs),
                    IF Head(devs).name = "mem" THEN Head(devs).length ELSE acc)

devWithIrq_UartOnly == {"uart"}

devWithIrq == {"uart", "net"}

RECURSIVE CountIrqs_UntilPlic(_, _)
CountIrqs_UntilPlic(devs, acc) ==
    IF devs = <<>> \/ Head(devs).name = "ariane_plic" THEN acc
    ELSE CountIrqs_UntilPlic(Tail(devs),
                   IF Head(devs).name \in devWithIrq THEN acc + 1 ELSE acc)

RECURSIVE CountIrqs(_, _)
CountIrqs(devs, acc) ==
    IF devs = <<>> THEN acc
    ELSE CountIrqs(Tail(devs),
                   IF Head(devs).name \in devWithIrq THEN acc + 1 ELSE acc)

RECURSIVE IntcRefsFrom(_, _, _, _)
IntcRefsFrom(c, n, a, b) ==
    IF c >= n THEN <<>>
    ELSE <<[cpu |-> c, line |-> a], [cpu |-> c, line |-> b]>>
         \o IntcRefsFrom(c + 1, n, a, b)

IntcRefs_SkipCoreZero(n, a, b) == IntcRefsFrom(1, n, a, b)

\* for k in range(nCpus): "&CPU%d_intc a &CPU%d_intc b " % (k,k)
IntcRefs(n, a, b) == IntcRefsFrom(0, n, a, b)

Reg22(d) == reg_fmt(d.base, d.length, 2, 2).value

CpuNode(c) ==
    [kind |-> "cpu", label |-> c, unit |-> c, reg |-> c, intc |-> c]

MemNode_LengthAsBase(d) ==
    [kind |-> "memory", unit |-> Fmt08x(d.base),
     reg |-> reg_fmt(d.base, d.base, 2, 2).value]

MemNode(d) ==
    [kind |-> "memory", unit |-> Fmt08x(d.base), reg |-> Reg22(d)]

ClintNode(d, n) ==
    [kind |-> "clint", unit |-> Fmt08x(d.base),
     interrupts_extended |-> IntcRefs(n, 3, 7), reg |-> Reg22(d)]

PlicNode(d, n, ndev) ==
    [kind |-> "plic", unit |-> Fmt08x(d.base),
     interrupts_extended |-> IntcRefs(n, 11, 9), reg |-> Reg22(d),
     ndev |-> ndev]

UartNode(d, nr) ==
    [kind |-> "uart", unit |-> Fmt08x(d.base), reg |-> Reg22(d),
     interrupts |-> nr]

SdNode(d) ==
    [kind |-> "sdhci", unit |-> Fmt08x(d.base), reg |-> Reg22(d)]

NetNode_IrqOne(d, nr) ==
    [kind |-> "ethernet", unit |-> Fmt08x(d.base), reg |-> Reg22(d),
     interrupts |-> 1]

NetNode(d, nr) ==
    [kind |-> "ethernet", unit |-> Fmt08x(d.base), reg |-> Reg22(d),
     interrupts |-> nr]

(***************************************************************************)
(* Inputs of the _reg_fmt harness: 64-bit values and cell counts, the      *)
(* latter also outside 0..2.                                               *)
(***************************************************************************)
RegValues == {U64_Zero, U64_2G, U64_256M, U64_Max, U64_Mixed, U64_HighOnly}

CellArgs == (0 - 1)..MaxCellArg

NoArgs == [addrBase |-> <<>>, addrLen |-> <<>>, addrCells |-> 0, sizeCells |-> 0]
NoRet  == [raised |-> FALSE, value |-> <<>>]
NoInfo == [dramMB |-> <<>>]

\* the generator at rest, while _reg_fmt is exercised on its own
MainIdle ==
    /\ devices = <<>> /\ nCpus = 1 /\ pc = "idle" /\ err = "none"
    /\ i = 0 /\ k = 0 /\ tmpStr = <<>> /\ uartBase = U64_Beef
    /\ numIrqs = 0 /\ ioDeviceNr = 1 /\ memLen = <<>>
    /\ info = NoInfo /\ files = {}

\* _reg_fmt at rest, while the generator runs
RegIdle == rpc = "idle" /\ rargs = NoArgs /\ rret = NoRet

(***************************************************************************)
(* The _reg_fmt harness: a caller picks the four arguments, then calls.    *)
(***************************************************************************)
InitRegFmt ==
    /\ MainIdle
    /\ rpc = "call"
    /\ rargs \in [addrBase : RegValues, addrLen : RegValues,
                  addrCells : CellArgs, sizeCells : CellArgs]
    /\ rret = NoRet

CallRegFmt ==
    /\ rpc = "call"
    /\ rret' = reg_fmt(rargs.addrBase, rargs.addrLen,
                       rargs.addrCells, rargs.sizeCells)
    /\ rpc' = "returned"
    /\ UNCHANGED <<rargs, mainVars>>

NextRegFmt == CallRegFmt

SpecRegFmt == InitRegFmt /\ [][NextRegFmt]_vars

(***************************************************************************)
(* main: gen_riscv_dts, then get_bootrom_info.  Init is the state after    *)
(* the inventory and PITON_NUM_TILES have been read.                       *)
(***************************************************************************)
Init ==
    /\ devices \in Inventories
    /\ nCpus \in 0..MaxCpus
    /\ pc = "gen_riscv_dts"
    /\ err = "none"
    /\ i = 0 /\ k = 0
    /\ tmpStr = <<>>
    /\ uartBase = U64_Beef
    /\ numIrqs = 0
    /\ ioDeviceNr = 1
    /\ memLen = <<0>>
    /\ info = NoInfo
    /\ files = {}
    /\ RegIdle

\* lines 126-163: assert nCpus >= 1, the scan for the UART base, the header
GenStart ==
    /\ pc = "gen_riscv_dts"
    /\ IF nCpus >= 1
       THEN /\ uartBase' = LastUartBase(devices, U64_Beef)
            /\ tmpStr' = <<[kind |-> "header"]>>
            /\ k' = 0
            /\ pc' = "cpus"
            /\ err' = err
       ELSE /\ pc' = "failed"
            /\ err' = "assert nCpus >= 1"
            /\ UNCHANGED <<uartBase, tmpStr, k>>
    /\ UNCHANGED <<devices, nCpus, i, numIrqs, ioDeviceNr, memLen, info, files, regVars>>

\* lines 165-184: one pass of for k in range(nCpus)
EmitCpu ==
    /\ pc = "cpus"
    /\ k < nCpus
    /\ tmpStr' = Append(tmpStr, CpuNode(k))
    /\ k' = k + 1
    /\ UNCHANGED <<devices, nCpus, pc, err, i, uartBase, numIrqs, ioDeviceNr,
                   memLen, info, files, regVars>>

\* lines 186-188: the cpus block is closed
EndCpus ==
    /\ pc = "cpus"
    /\ k >= nCpus
    /\ tmpStr' = Append(tmpStr, [kind |-> "end_cpus"])
    /\ i' = 1
    /\ pc' = "memory"
    /\ UNCHANGED <<devices, nCpus, err, k, uartBase, numIrqs, ioDeviceNr,
                   memLen, info, files, regVars>>

\* lines 192-202: one pass of the memory loop, on a mem entry
EmitMemory ==
    /\ pc = "memory"
    /\ i <= Len(devices)
    /\ devices[i].name = "mem"
    /\ tmpStr' = Append(tmpStr, MemNode(devices[i]))
    /\ i' = i + 1
    /\ UNCHANGED <<devices, nCpus, pc, err, k, uartBase, numIrqs, ioDeviceNr,
                   memLen, info, files, regVars>>

\* lines 192-193: one pass of the memory loop, on any other entry
SkipNotMemory ==
    /\ pc = "memory"
    /\ i <= Len(devices)
    /\ devices[i].name # "mem"
    /\ i' = i + 1
    /\ UNCHANGED <<devices, nCpus, pc, err, k, tmpStr, uartBase, numIrqs,
                   ioDeviceNr, memLen, info, files, regVars>>

\* lines 206-214: the count of interrupt sources, and ioDeviceNr=1
CountIrqSources ==
    /\ pc = "memory"
    /\ i > Len(devices)
    /\ numIrqs' = CountIrqs(devices, 0)
    /\ ioDeviceNr' = 1
    /\ i' = 1
    /\ pc' = "periphs"
    /\ UNCHANGED <<devices, nCpus, err, k, tmpStr, uartBase, memLen, info,
                   files, regVars>>

InPeriphs == pc = "periphs" /\ i <= Len(devices)

\* lines 217-231
EmitClint ==
    /\ InPeriphs
    /\ devices[i].name = "ariane_clint"
    /\ tmpStr' = Append(tmpStr, ClintNode(devices[i], nCpus))
    /\ i' = i + 1
    /\ UNCHANGED <<devices, nCpus, pc, err, k, uartBase, numIrqs, ioDeviceNr,
                   memLen, info, files, regVars>>

\* lines 233-251
EmitPlic ==
    /\ InPeriphs
    /\ devices[i].name = "ariane_plic"
    /\ tmpStr' = Append(tmpStr, PlicNode(devices[i], nCpus, numIrqs))
    /\ i' = i + 1
    /\ UNCHANGED <<devices, nCpus, pc, err, k, uartBase, numIrqs, ioDeviceNr,
                   memLen, info, files, regVars>>

\* lines 255-270
EmitUart ==
    /\ InPeriphs
    /\ devices[i].name = "uart"
    /\ tmpStr' = Append(tmpStr, UartNode(devices[i], ioDeviceNr))
    /\ ioDeviceNr' = ioDeviceNr + 1
    /\ i' = i + 1
    /\ UNCHANGED <<devices, nCpus, pc, err, k, uartBase, numIrqs, memLen,
                   info, files, regVars>>

\* lines 273-283
EmitSd ==
    /\ InPeriphs
    /\ devices[i].name = "sd"
    /\ tmpStr' = Append(tmpStr, SdNode(devices[i]))
    /\ i' = i + 1
    /\ UNCHANGED <<devices, nCpus, pc, err, k, uartBase, numIrqs, ioDeviceNr,
                   memLen, info, files, regVars>>

\* lines 286-317
EmitNet ==
    /\ InPeriphs
    /\ devices[i].name = "net"
    /\ tmpStr' = Append(tmpStr, NetNode(devices[i], ioDeviceNr))
    /\ ioDeviceNr' = ioDeviceNr + 1
    /\ i' = i + 1
    /\ UNCHANGED <<devices, nCpus, pc, err, k, uartBase, numIrqs, memLen,
                   info, files, regVars>>

\* a pass of the peripheral loop on a name none of the five tests matches
SkipNotPeriph ==
    /\ InPeriphs
    /\ devices[i].name \notin {"ariane_clint", "ariane_plic", "uart", "sd", "net"}
    /\ i' = i + 1
    /\ UNCHANGED <<devices, nCpus, pc, err, k, tmpStr, uartBase, numIrqs,
                   ioDeviceNr, memLen, info, files, regVars>>

\* lines 319-324: the root is closed, then assert ioDeviceNr-1 == numIrqs
CheckIrqCount ==
    /\ pc = "periphs"
    /\ i > Len(devices)
    /\ tmpStr' = Append(tmpStr, [kind |-> "end_root"])
    /\ IF ioDeviceNr - 1 = numIrqs
       THEN pc' = "write_dts" /\ err' = err
       ELSE pc' = "failed" /\ err' = "assert ioDeviceNr-1 == numIrqs"
    /\ UNCHANGED <<devices, nCpus, i, k, uartBase, numIrqs, ioDeviceNr,
                   memLen, info, files, regVars>>

\* lines 326-327
WriteDts ==
    /\ pc = "write_dts"
    /\ files' = files \cup {"rv64_platform.dts"}
    /\ pc' = "get_bootrom_info"
    /\ UNCHANGED <<devices, nCpus, err, i, k, tmpStr, uartBase, numIrqs,
                   ioDeviceNr, memLen, info, regVars>>

\* lines 26-28: the two git queries; os.environ['ARIANE_ROOT'] raises when
\* the variable is unset, check_output when the command fails
GetVersions ==
    /\ pc = "get_bootrom_info"
    /\ \E ok \in BOOLEAN :
          IF ok THEN pc' = "memLen" /\ err' = err
          ELSE pc' = "failed" /\ err' = "get_bootrom_info"
    /\ UNCHANGED <<devices, nCpus, i, k, tmpStr, uartBase, numIrqs,
                   ioDeviceNr, memLen, info, files, regVars>>

\* lines 31-34
GetMemLen ==
    /\ pc = "memLen"
    /\ memLen' = LastMemLen(devices, <<0>>)
    /\ pc' = "banner"
    /\ UNCHANGED <<devices, nCpus, err, i, k, tmpStr, uartBase, numIrqs,
                   ioDeviceNr, info, files, regVars>>

\* lines 36-96: the banner; int(os.environ[...]) raises when a variable is
\* unset or is no integer
BuildBanner ==
    /\ pc = "banner"
    /\ \E ok \in BOOLEAN :
          IF ok THEN /\ info' = [dramMB |-> DramMB(memLen)]
                     /\ pc' = "write_info"
                     /\ err' = err
          ELSE /\ pc' = "failed"
               /\ err' = "get_bootrom_info"
               /\ info' = info
    /\ UNCHANGED <<devices, nCpus, i, k, tmpStr, uartBase, numIrqs,
                   ioDeviceNr, memLen, files, regVars>>

\* lines 98-99
WriteInfo ==
    /\ pc = "write_info"
    /\ files' = files \cup {"info.h"}
    /\ pc' = "done"
    /\ UNCHANGED <<devices, nCpus, err, i, k, tmpStr, uartBase, numIrqs,
                   ioDeviceNr, memLen, info, regVars>>

Next ==
    \/ GenStart \/ EmitCpu \/ EndCpus
    \/ EmitMemory \/ SkipNotMemory \/ CountIrqSources
    \/ EmitClint \/ EmitPlic \/ EmitUart \/ EmitSd \/ EmitNet \/ SkipNotPeriph
    \/ CheckIrqCount \/ WriteDts
    \/ GetVersions \/ GetMemLen \/ BuildBanner \/ WriteInfo

Spec == Init /\ [][Next]_vars

(***************************************************************************)
(* Reading a returned register field back.                                 *)
(***************************************************************************)
RECURSIVE TokensAcc(_, _, _)
TokensAcc(s, cur, acc) ==
    IF s = <<>> THEN (IF cur = <<>> THEN acc ELSE Append(acc, cur))
    ELSE IF Head(s) = " "
         THEN TokensAcc(Tail(s), <<>>, IF cur = <<>> THEN acc ELSE Append(acc, cur))
         ELSE TokensAcc(Tail(s), Append(cur, Head(s)), acc)

\* the maximal runs of non-space characters of s, in order
Tokens(s) == TokensAcc(s, <<>>, <<>>)

\* 0x and the eight base-16 digits of the 16-digit value v that follow digit from
HexWord(v, from) == <<"0", "x">> \o [j \in 1..8 |-> HexChars[v[from + j] + 1]]

ExpectedCells(a) ==
       (IF a.addrCells = 2 THEN <<HexWord(a.addrBase, 0)>> ELSE <<>>)
    \o (IF a.addrCells >= 1 THEN <<HexWord(a.addrBase, 8)>> ELSE <<>>)
    \o (IF a.sizeCells = 2 THEN <<HexWord(a.addrLen, 0)>> ELSE <<>>)
    \o (IF a.sizeCells >= 1 THEN <<HexWord(a.addrLen, 8)>> ELSE <<>>)

ValidCells(a) == a.addrCells \in 0..2 /\ a.sizeCells \in 0..2

Returned == rpc = "returned" /\ ~rret.raised

RECURSIVE EachFollowedBySpace(_)
EachFollowedBySpace(t) ==
    IF t = <<>> THEN <<>> ELSE Head(t) \o <<" ">> \o EachFollowedBySpace(Tail(t))

RECURSIVE SeparatedBySpace(_)
SeparatedBySpace(t) ==
    IF t = <<>> THEN <<>>
    ELSE IF Len(t) = 1 THEN Head(t)
    ELSE Head(t) \o <<" ">> \o SeparatedBySpace(Tail(t))

ExampleArgs ==
    [addrBase |-> U64_2G, addrLen |-> U64_256M, addrCells |-> 2, sizeCells |-> 2]

ExampleCells ==
    << <<"0","x","0","0","0","0","0","0","0","0">>,
       <<"0","x","8","0","0","0","0","0","0","0">>,
       <<"0","x","0","0","0","0","0","0","0","0">>,
       <<"0","x","1","0","0","0","0","0","0","0">> >>

\* C2: with both cell counts in 0..2, the returned text holds exactly
\* addrCells + sizeCells tokens: the upper 32 bits of the base (two address
\* cells only), its lower 32 bits (one or two address cells), the upper 32 bits
\* of the length (two size cells only), its lower 32 bits (one or two size
\* cells); each token is 0x and exactly eight base-16 digits; a half whose
\* cell count is 0 gives no token.
C2_RegFmtCells ==
    (rpc = "returned" /\ ValidCells(rargs)) =>
        /\ ~rret.raised
        /\ Tokens(rret.value) = ExpectedCells(rargs)
        /\ Len(Tokens(rret.value)) = rargs.addrCells + rargs.sizeCells
        /\ \A j \in 1..Len(Tokens(rret.value)) : Len(Tokens(rret.value)[j]) = 10

C2_Witness ==
    /\ Returned
    /\ rargs.addrCells = 2 /\ rargs.sizeCells = 1
    /\ rargs.addrBase = U64_Mixed /\ rargs.addrLen = U64_Max
    /\ Len(Tokens(rret.value)) = 3

\* C3 as stated: the text is one space, the cell values with one space between
\* consecutive values, and nothing after the last value; the example call
\* returns " 0x00000000 0x80000000 0x00000000 0x10000000".
C3_NoTrailingSpace ==
    Returned =>
        /\ rret.value = <<" ">> \o SeparatedBySpace(Tokens(rret.value))
        /\ rargs = ExampleArgs =>
               rret.value = <<" ">> \o SeparatedBySpace(ExampleCells)

\* C3 amended: the text is one space, then every cell value followed by exactly
\* one space (so a text with at least one value ends in a space); the example
\* call returns " 0x00000000 0x80000000 0x00000000 0x10000000 ".
C3_EachCellThenSpace ==
    Returned =>
        /\ rret.value = <<" ">> \o EachFollowedBySpace(Tokens(rret.value))
        /\ ValidCells(rargs) =>
               Len(Tokens(rret.value)) = rargs.addrCells + rargs.sizeCells
        /\ rargs = ExampleArgs =>
               rret.value = <<" ">> \o EachFollowedBySpace(ExampleCells)

C3_Witness ==
    /\ Returned
    /\ rargs = ExampleArgs
    /\ rret.value[Len(rret.value)] = " "
    /\ Len(rret.value) = 45

\* C7: a call with addrCells or sizeCells outside 0..2 fails and returns no
\* register field.
C7_BadCellCountRaises ==
    (rpc = "returned" /\ ~ValidCells(rargs)) =>
        (rret.raised /\ rret.value = <<>>)

(***************************************************************************)
(* Reading the generated document back.                                    *)
(***************************************************************************)
NodesOfKind(K) == SelectSeq(tmpStr, LAMBDA n : n.kind \in K)

DevicesNamed(devs, N) == SelectSeq(devs, LAMBDA d : d.name \in N)

\* the four cells of a device's register field
RegWords(d) ==
    <<HexWord(d.base, 0), HexWord(d.base, 8),
      HexWord(d.length, 0), HexWord(d.length, 8)>>

\* the positions among the first n inventory entries named uart or net
IrqPositions(n) == {j \in 1..n : devices[j].name \in {"uart", "net"}}

MemPositions == {j \in 1..Len(devices) : devices[j].name = "mem"}

PastCpus == \E j \in 1..Len(tmpStr) : tmpStr[j].kind = "end_cpus"

PastMemory == PastCpus /\ pc # "memory"

PastPeriphs == \E j \in 1..Len(tmpStr) : tmpStr[j].kind = "end_root"

\* how many inventory entries the peripheral pass has handled
Handled ==
    IF PastPeriphs THEN Len(devices)
    ELSE IF pc = "periphs" THEN i - 1
    ELSE 0

\* C1: once the counting pass and the peripheral pass are over, the number of
\* interrupt indices assigned (ioDeviceNr - 1) equals numIrqs, the number of
\* uart and net entries of the inventory; the final assertion never fails.
C1_IrqCountConsistent ==
    /\ err # "assert ioDeviceNr-1 == numIrqs"
    /\ ((pc = "periphs" /\ i > Len(devices)) \/ PastPeriphs) =>
          /\ ioDeviceNr - 1 = numIrqs
          /\ numIrqs = Cardinality(IrqPositions(Len(devices)))

C1_Witness ==
    /\ pc = "write_dts"
    /\ numIrqs >= 2
    /\ \E a, b \in 1..Len(devices) :
          devices[a].name = "uart" /\ devices[b].name = "net"

\* C4: every PLIC node declares riscv,ndev equal to the number of uart and net
\* entries of the whole inventory, wherever the ariane_plic entry stands.
C4_PlicNdevIsTotal ==
    \A j \in 1..Len(tmpStr) :
        tmpStr[j].kind = "plic" =>
            tmpStr[j].ndev = Cardinality(IrqPositions(Len(devices)))

C4_Witness ==
    /\ pc = "done"
    /\ Len(devices) = 3
    /\ devices[1].name = "ariane_plic"
    /\ devices[2].name = "uart"
    /\ devices[3].name = "net"
    /\ \E j \in 1..Len(tmpStr) : tmpStr[j].kind = "plic" /\ tmpStr[j].ndev = 2

\* C5: the CPU nodes are those of the core indices 0..nCpus-1, once each and in
\* ascending order, each with its own CPU<k>_intc label; the interrupt routing
\* of every CLINT and PLIC node names each core index twice, in ascending
\* order, and no other index.
C5_CpuNodesAndRouting ==
    LET cpus == NodesOfKind({"cpu"})
    IN  /\ pc = "cpus" => Len(cpus) = k
        /\ PastCpus => Len(cpus) = nCpus
        /\ \A j \in 1..Len(cpus) :
              /\ cpus[j].label = j - 1 /\ cpus[j].unit = j - 1
              /\ cpus[j].reg = j - 1 /\ cpus[j].intc = j - 1
        /\ \A j \in 1..Len(tmpStr) :
              tmpStr[j].kind \in {"clint", "plic"} =>
                  LET r == tmpStr[j].interrupts_extended
                  IN  /\ Len(r) = 2 * nCpus
                      /\ \A m \in 1..Len(r) : r[m].cpu = (m - 1) \div 2

C5_Witness ==
    /\ pc = "done"
    /\ nCpus = 2
    /\ Len(NodesOfKind({"cpu"})) = 2
    /\ Len(NodesOfKind({"clint"})) >= 1
    /\ Len(NodesOfKind({"plic"})) >= 1

\* C6 as stated: exactly one memory node when the inventory has a mem entry
\* (also when it has several), built from the last one; none, and no error,
\* when it has no mem entry.
C6_OneMemoryNode ==
    PastMemory =>
        LET mems == NodesOfKind({"memory"})
            last == devices[CHOOSE j \in MemPositions :
                                \A m \in MemPositions : m <= j]
        IN  IF MemPositions = {} THEN mems = <<>>
            ELSE Len(mems) = 1 /\ Tokens(mems[1].reg) = RegWords(last)

\* C6 amended: one memory node per mem entry of the inventory, in inventory
\* order, each built from the base and length of its own entry; no memory node
\* when the inventory has no mem entry, and the memory pass raises no error.
C6_MemoryNodePerEntry ==
    /\ pc = "memory" => err = "none"
    /\ PastMemory =>
          LET mems == NodesOfKind({"memory"})
              ents == DevicesNamed(devices, {"mem"})
          IN  /\ Len(mems) = Len(ents)
              /\ \A j \in 1..Len(mems) : Tokens(mems[j].reg) = RegWords(ents[j])

C6_Witness ==
    /\ pc = "done"
    /\ Len(NodesOfKind({"memory"})) = 2
    /\ NodesOfKind({"memory"})[1].reg # NodesOfKind({"memory"})[2].reg

\* C8: a run in which a step fails has written no document; a finished run
\* has written both documents or none.
C8_FailedRunWritesNothing ==
    /\ pc = "failed" => files = {}
    /\ pc \in {"done", "failed"} =>
          (files = {} \/ files = {"rv64_platform.dts", "info.h"})

\* floor(L / 2^20) for a 16-digit value L
FloorMB(len) == StripZeros(Bits(SubSeq(len, 1, Len(len) - 5)))

\* C9: the DRAM size of the banner is floor(L / 2^20), L the length of the
\* last mem entry of the inventory, 0 without a mem entry.
C9_DramIsFloorMB ==
    pc \in {"write_info", "done"} =>
        info.dramMB =
            IF MemPositions = {} THEN <<>>
            ELSE FloorMB(devices[CHOOSE j \in MemPositions :
                                    \A m \in MemPositions : m <= j].length)

\* C10: the interrupt index counter is 1 plus the number of uart and net
\* entries handled so far (it starts at 1, each uart or net node raises it by
\* one, no other entry changes it); the j-th uart or net entry of the
\* inventory, whichever of the two it is, gets interrupt number j, so that the
\* numbers are pairwise distinct, ascend in inventory order and, at the end,
\* are exactly 1..numIrqs.
C10_IrqNumbering ==
    LET nodes == NodesOfKind({"uart", "ethernet"})
        ents  == DevicesNamed(SubSeq(devices, 1, Handled), {"uart", "net"})
    IN  /\ ioDeviceNr = 1 + Cardinality(IrqPositions(Handled))
        /\ Len(nodes) = Len(ents)
        /\ \A j \in 1..Len(nodes) :
              /\ nodes[j].interrupts = j
              /\ nodes[j].kind = (IF ents[j].name = "uart" THEN "uart" ELSE "ethernet")
              /\ Tokens(nodes[j].reg) = RegWords(ents[j])
        /\ PastPeriphs =>
              {nodes[j].interrupts : j \in 1..Len(nodes)} = 1..numIrqs

C10_Witness ==
    /\ pc = "done"
    /\ Len(devices) = 3
    /\ devices[1].name = "uart" /\ devices[2].name = "net" /\ devices[3].name = "uart"
    /\ ioDeviceNr = 4
    /\ NodesOfKind({"uart", "ethernet"})[2].interrupts = 2

====
